---- MODULE Spec2Model ----
(***************************************************************************)
(* Model of the node graph and the Follow trait of src/src/node/node.rs:   *)
(* RootNode / Branch / Container, the builders that construct them, and    *)
(* the two walking operations `follow` and `follow_with_choice` together   *)
(* with their helpers.  The walk is modelled step by step: one action per  *)
(* statement group of the two functions, with the chain of pending         *)
(* `follow_with_choice` callers kept in `frames`.                          *)
(***************************************************************************)
EXTENDS Integers, Sequences, FiniteSets, TLC

VARIABLES
    tree,       \* the RootNode with all nested branches and their num_visited
    stack,      \* the position stack (Stack = Vec<usize>), values 0-based
    buffer,     \* LineDataBuffer: texts of the lines appended so far
    pc,         \* position of the running call: idle / follow / loop / fwc / ret / panicked
    cur,        \* path [i0, b0, i1, b1, ...] of the node (`self`) the running call is in
    frames,     \* paths of the nodes whose follow_with_choice call awaits a result
    chosen,     \* chosen_branch_index of the running follow_with_choice call
    result,     \* last returned FollowResult
    op,         \* operation the caller invoked last: none / follow / fwc
    pre,        \* tree, stack and buffer as they were when the call was made
    sel,        \* the branch selected by the running / last call, if any
    selections, \* the paths of the branches selected so far, in order
    freshFollows, \* number of follow calls made on the root with the stack [0]
    calls,      \* number of calls made so far
    variable,   \* the Variable handed to to_string
    data,       \* FollowData: the visits recorded for each knot and stitch
    printed,    \* what to_string returned last
    in_progress,  \* the Story's flag set by start
    pending,    \* the branch index stored by make_choice for the next resume
    story_pc,   \* idle, or resume while a resume call of the Story is running
    story_result, \* what the Story's own checks returned last
    line_index, \* the usize handed to MetaData::from, as 16-bit limbs, lowest first
    meta_data,  \* the MetaData made from it
    line_number \* what MetaData::line returned

nodeVars == <<tree, stack, buffer, pc, cur, frames, chosen, result, op, pre,
              sel, selections, freshFollows, calls>>

variableVars == <<variable, data, printed>>

storyVars == <<in_progress, pending, story_pc, story_result>>

metaVars == <<line_index, meta_data, line_number>>

vars == <<nodeVars, variableVars, storyVars, metaVars>>

----------------------------------------------------------------------------
(* Bounds *)

MaxCalls == 4
MaxChoice == 3

\* the longest stack and the largest index handed to a call from outside
MaxStackLen == 3
MaxIndex == 4

\* the largest visit count recorded and the largest integer printed
MaxVisits == 12
MaxInt == 11

----------------------------------------------------------------------------
(* Sequence helpers *)

Last(s) == s[Len(s)]

Front(s) == SubSeq(s, 1, Len(s) - 1)

SetLast(s, v) == [s EXCEPT ![Len(s)] = v]

IsPrefix(s, t) == Len(s) <= Len(t) /\ SubSeq(t, 1, Len(s)) = s

----------------------------------------------------------------------------
(* Data model: Container, Branch, RootNode and their builders *)

NoDivert == ""

LineOf(text, divert) == [kind |-> "Line", text |-> text, divert |-> divert]

BranchingChoiceOf(branches) == [kind |-> "BranchingChoice", branches |-> branches]

\* ChoiceData with its stickiness, its fallback flag and the value of its condition
ChoiceDataWith(text, divert, is_sticky, is_fallback, condition) ==
    [line |-> LineOf(text, divert), num_visited |-> 0, is_sticky |-> is_sticky,
     is_fallback |-> is_fallback, condition |-> condition]

\* a once-only choice without a condition
ChoiceData(text, divert) == ChoiceDataWith(text, divert, FALSE, FALSE, TRUE)

RootNodeBuild(items) == [items |-> items, num_visited |-> 0]

\* the line of the choice put after the added items
BranchBuildChoiceLast(choice, items) ==
    [choice |-> choice,
     items |-> items \o <<choice.line>>,
     num_visited |-> 0]

BranchBuild(choice, items) ==
    [choice |-> choice,
     items |-> <<choice.line>> \o items,
     num_visited |-> 0]

\* a line whose processing returns an error
FailingLineOf(text) ==
    [kind |-> "Line", text |-> text, divert |-> NoDivert, fails |-> TRUE]

IsLine(item) == item.kind = "Line"

LineFails(line) == "fails" \in DOMAIN line

\* a choice is eligible when its condition holds and it is sticky or unvisited
EligibleChoice(choice, num_visited) ==
    choice.condition /\ (choice.is_sticky \/ num_visited = 0)

Eligible(branch) == EligibleChoice(branch.choice, branch.num_visited)

IsBranchingChoice(item) == item.kind = "BranchingChoice"

----------------------------------------------------------------------------
(* Trait accessors of Follow, on a node given by its path in the tree *)

RECURSIVE NodeAt(_, _)
NodeAt(node, path) ==
    IF path = <<>> THEN node
    ELSE NodeAt(node.items[path[1] + 1].branches[path[2] + 1], Tail(Tail(path)))

RECURSIVE ReplaceNode(_, _, _)
ReplaceNode(node, path, new) ==
    IF path = <<>> THEN new
    ELSE [node EXCEPT !.items[path[1] + 1].branches[path[2] + 1] =
              ReplaceNode(@, Tail(Tail(path)), new)]

get_num_items(node) == Len(node.items)

get_num_visited(node) == node.num_visited

HasItem(node, index) == index < Len(node.items)

get_item(node, index) == node.items[index + 1]

increment_num_visited(node) == [node EXCEPT !.num_visited = @ + 1]

----------------------------------------------------------------------------
(* Values of FollowResult = Result<Next, InklingError>, and a panic *)

NoResult == [kind |-> "None"]

NextDone == [kind |-> "Done"]

NextDivert(address) == [kind |-> "Divert", address |-> address]

NextChoiceSet(choices) == [kind |-> "ChoiceSet", choices |-> choices]

\* the missing last element taken for the end of the node
EmptyStackDone == NextDone

EmptyStackError == [kind |-> "Err", err |-> "EmptyStack"]

BadIndices(stack_index, index, num_items) ==
    [kind |-> "Err", err |-> "InternalError", stack_index |-> stack_index,
     index |-> index, num_items |-> num_items]

Panic == [kind |-> "Panic"]

ProcessError(line) == [kind |-> "Err", err |-> "ProcessError", text |-> line.text]

IsOk(r) == r.kind \in {"Done", "Divert", "ChoiceSet"}

----------------------------------------------------------------------------
(* Helpers of follow and follow_with_choice *)

\* Line::process: the line's text is pushed to the buffer
ProcessBuffer(line, buf) ==
    IF LineFails(line) THEN buf ELSE Append(buf, line.text)

\* Line::process: the value returned for the line
ProcessResult(line) ==
    IF LineFails(line) THEN ProcessError(line)
    ELSE IF line.divert # NoDivert THEN NextDivert(line.divert) ELSE NextDone

\* the error of a line left behind, the loop going on
IgnoresError(r) == FALSE

\* the `?` after `line.process(buffer)`
PropagatesError(r) == r.kind = "Err"

\* the once-only choices already taken filtered out of the set
get_choices_excluding_visited(branches) ==
    SelectSeq([i \in 1..Len(branches) |->
                  [branches[i].choice EXCEPT !.num_visited = branches[i].num_visited]],
              LAMBDA c : c.is_sticky \/ c.num_visited = 0)

\* the fallback choices filtered out of the set
get_choices_without_fallback(branches) ==
    SelectSeq([i \in 1..Len(branches) |->
                  [branches[i].choice EXCEPT !.num_visited = branches[i].num_visited]],
              LAMBDA c : ~c.is_fallback)

\* the choices cloned without the visits of their branches
get_choices_without_visits(branches) ==
    [i \in 1..Len(branches) |-> branches[i].choice]

get_choices_from_branching_set(branches) ==
    [i \in 1..Len(branches) |->
        [branches[i].choice EXCEPT !.num_visited = branches[i].num_visited]]

get_invalid_choice_error_stub(branching_choice_set, choice_index) ==
    [kind |-> "Err", err |-> "InvalidChoice", index |-> choice_index,
     internal_choices |-> get_choices_from_branching_set(branching_choice_set)]

\* the comparison written as `>`
IndexIsInvalidOffByOne(chosen_branch_index, num_branches) ==
    chosen_branch_index > num_branches

\* `chosen_branch_index >= branches.len()`
IndexIsInvalid(chosen_branch_index, num_branches) ==
    chosen_branch_index >= num_branches

\* Some(InklingError) or None (NoResult)
check_for_invalid_choice(chosen_branch_index, stack_index, stk, node) ==
    IF stack_index >= Len(stk) THEN NoResult
    ELSE LET branch_set_index == stk[stack_index + 1] IN
         IF /\ HasItem(node, branch_set_index)
            /\ IsBranchingChoice(get_item(node, branch_set_index))
            /\ IndexIsInvalid(chosen_branch_index,
                              Len(get_item(node, branch_set_index).branches))
         THEN get_invalid_choice_error_stub(
                  get_item(node, branch_set_index).branches, chosen_branch_index)
         ELSE NoResult

\* the selection refused for a branch that is not eligible
get_selected_branch_eligible(chosen_branch_index, stack_index, stk, node) ==
    IF stack_index >= Len(stk) THEN Panic
    ELSE LET branch_set_index == stk[stack_index + 1]
             num_items == get_num_items(node) IN
         IF ~HasItem(node, branch_set_index)
         THEN BadIndices(stack_index, branch_set_index, num_items)
         ELSE LET item == get_item(node, branch_set_index) IN
              IF IsBranchingChoice(item)
              THEN IF /\ chosen_branch_index < Len(item.branches)
                      /\ Eligible(item.branches[chosen_branch_index + 1])
                   THEN [kind |-> "Ok", item |-> branch_set_index,
                         branch |-> chosen_branch_index]
                   ELSE BadIndices(stack_index + 1, chosen_branch_index, num_items)
              ELSE Panic

\* Ok(branch) is [kind |-> "Ok", item, branch]; otherwise an Err or a Panic
get_selected_branch(chosen_branch_index, stack_index, stk, node) ==
    IF stack_index >= Len(stk) THEN Panic
    ELSE LET branch_set_index == stk[stack_index + 1]
             num_items == get_num_items(node) IN
         IF ~HasItem(node, branch_set_index)
         THEN BadIndices(stack_index, branch_set_index, num_items)
         ELSE LET item == get_item(node, branch_set_index) IN
              IF IsBranchingChoice(item)
              THEN IF chosen_branch_index < Len(item.branches)
                   THEN [kind |-> "Ok", item |-> branch_set_index,
                         branch |-> chosen_branch_index]
                   ELSE BadIndices(stack_index + 1, chosen_branch_index, num_items)
              ELSE Panic

get_next_level_branch(stack_index, stk, node) ==
    IF stack_index + 1 >= Len(stk) THEN Panic
    ELSE LET branch_set_index == stk[stack_index + 1]
             branch_index == stk[stack_index + 2]
             num_items == get_num_items(node) IN
         IF ~HasItem(node, branch_set_index)
         THEN BadIndices(stack_index, branch_set_index, num_items)
         ELSE LET item == get_item(node, branch_set_index) IN
              IF IsBranchingChoice(item)
              THEN IF branch_index < Len(item.branches)
                   THEN [kind |-> "Ok", item |-> branch_set_index,
                         branch |-> branch_index]
                   ELSE BadIndices(stack_index + 1, branch_index, num_items)
              ELSE Panic

\* the visit count incremented on every follow
EntersNodeAlways(at_index) == TRUE

\* the visit count never incremented
EntersNodeNever(at_index) == FALSE

\* the index tested after it was advanced
EntersNodeLate(at_index) == at_index = 1

\* every follow that does not start at the first item counted as a visit
EntersNodeAfterStart(at_index) == at_index > 0

\* `if *at_index == 0` guarding increment_num_visited
EntersNode(at_index) == at_index = 0

\* the index advanced twice per item
AdvanceIndexTwice(stk) == SetLast(stk, Last(stk) + 2)

\* the first element of the stack advanced in place of the last
AdvanceFirstIndex(stk) == [stk EXCEPT ![1] = @ + 1]

\* `*at_index += 1` at the head of the loop body
AdvanceIndex(stk) == SetLast(stk, Last(stk) + 1)

\* the index left advanced past the branching choice
LeaveIndexAdvanced(stk) == stk

\* `*at_index -= 1` when the item is a branching choice
StayAtBranchingChoice(stk) == SetLast(stk, Last(stk) - 1)

\* a divert that does not end the loop
NeverShortCircuits(r) == FALSE

\* `if let Next::Divert(..) = result { return Ok(result) }`
ShortCircuits(r) == r.kind = "Divert"

\* every level taken for the leaf
AlwaysAtLeaf(stack_index, stk) == FALSE

\* the descent recursing at the leaf level too
NeverAtLeaf(stack_index, stk) == TRUE

\* `stack_index < stack.len() - 1`
NotAtLeaf(stack_index, stk) == stack_index < Len(stk) - 1

\* the stack extended to start after the branch's first item
ExtendStackPastFirstItem(stk, chosen_branch_index) ==
    stk \o <<chosen_branch_index, 1>>

\* `stack.extend_from_slice(&[chosen_branch_index, 0])`
ExtendStack(stk, chosen_branch_index) == stk \o <<chosen_branch_index, 0>>

\* only the item index popped, the branch index left on the stack
PopItemIndexOnly(stk) ==
    LET cut == SubSeq(stk, 1, Len(stk) - 1) IN SetLast(cut, Last(cut) + 1)

\* the two entries popped without stepping past the branching choice
TruncateWithoutStep(stk) == SubSeq(stk, 1, Len(stk) - 2)

\* the two entries popped and the index stepped by two
StepTwicePastBranchingChoice(stk) ==
    LET cut == SubSeq(stk, 1, Len(stk) - 2) IN SetLast(cut, Last(cut) + 2)

\* `stack.truncate(stack.len() - 2); *stack.last_mut() += 1`
StepPastBranchingChoice(stk) ==
    LET cut == SubSeq(stk, 1, Len(stk) - 2) IN SetLast(cut, Last(cut) + 1)

\* the result of the branch returned as it is, Done too
ContinuesCallerNever(r) == FALSE

\* the caller continued after whatever the branch returned
ContinuesCallerAlways(r) == IsOk(r)

\* `match result { Next::Done => ..follow.., other => Ok(other) }`
ContinuesCaller(r) == r.kind = "Done"

----------------------------------------------------------------------------
(* The stories walked: trees assembled as the builders assemble them *)

\* Three nested single-branch choices, each followed by a line of its parent
NestedTree ==
    RootNodeBuild(<<
        BranchingChoiceOf(<<
            BranchBuild(ChoiceData("Choice 1", NoDivert), <<
                BranchingChoiceOf(<<
                    BranchBuild(ChoiceData("Choice 2", NoDivert), <<
                        BranchingChoiceOf(<<
                            BranchBuild(ChoiceData("Choice 3", NoDivert),
                                        <<LineOf("Line 1", NoDivert)>>)
                        >>),
                        LineOf("Line 2", NoDivert)
                    >>)
                >>),
                LineOf("Line 3", NoDivert)
            >>)
        >>),
        LineOf("Line 4", NoDivert)
    >>)

\* Sibling branches, a diverting choice, a nested choice and a later choice
MixedTree ==
    RootNodeBuild(<<
        LineOf("Line 1", NoDivert),
        BranchingChoiceOf(<<
            BranchBuild(ChoiceData("Choice A", NoDivert), <<>>),
            BranchBuild(ChoiceData("Choice B", "divert"), <<>>),
            BranchBuild(ChoiceData("Choice C", NoDivert), <<
                BranchingChoiceOf(<<
                    BranchBuild(ChoiceData("Choice D", NoDivert),
                                <<LineOf("Line 2", NoDivert)>>),
                    BranchBuild(ChoiceData("Choice E", NoDivert),
                                <<LineOf("Line 3", "knot")>>)
                >>),
                LineOf("Line 4", NoDivert)
            >>)
        >>),
        LineOf("Line 5", NoDivert),
        BranchingChoiceOf(<<
            BranchBuild(ChoiceData("Choice F", NoDivert), <<>>)
        >>)
    >>)

\* Plain lines with a divert in the middle
DivertTree ==
    RootNodeBuild(<<
        LineOf("Line 1", NoDivert),
        LineOf("Divert", "divert"),
        LineOf("Line 2", NoDivert),
        LineOf("Line 3", NoDivert)
    >>)

\* A sticky, a once-only and a conditional choice, then a choice with a fallback
ChoiceTree ==
    RootNodeBuild(<<
        BranchingChoiceOf(<<
            BranchBuild(ChoiceDataWith("Sticky", NoDivert, TRUE, FALSE, TRUE), <<>>),
            BranchBuild(ChoiceDataWith("Once", NoDivert, FALSE, FALSE, TRUE), <<>>),
            BranchBuild(ChoiceDataWith("Hidden", NoDivert, TRUE, FALSE, FALSE), <<>>)
        >>),
        LineOf("Line 1", NoDivert),
        BranchingChoiceOf(<<
            BranchBuild(ChoiceDataWith("Taken", NoDivert, FALSE, FALSE, TRUE), <<>>),
            BranchBuild(ChoiceDataWith("", "elsewhere", FALSE, TRUE, TRUE), <<>>)
        >>)
    >>)

\* A choice whose condition is false beside a fallback choice
FallbackTree ==
    RootNodeBuild(<<
        LineOf("Line 1", NoDivert),
        BranchingChoiceOf(<<
            BranchBuild(ChoiceDataWith("Never", NoDivert, FALSE, FALSE, FALSE), <<>>),
            BranchBuild(ChoiceDataWith("", NoDivert, FALSE, TRUE, TRUE),
                        <<LineOf("Line 2", NoDivert)>>)
        >>),
        LineOf("Line 3", NoDivert)
    >>)

Trees == {NestedTree, MixedTree, DivertTree, ChoiceTree, FallbackTree}

\* Lines that fail: first in a branch, inside a nested branch, and in the root
FailingTree ==
    RootNodeBuild(<<
        LineOf("Line 1", NoDivert),
        BranchingChoiceOf(<<
            BranchBuild(ChoiceData("Choice G", NoDivert),
                        <<FailingLineOf("Broken G"), LineOf("Line 2", NoDivert)>>),
            BranchBuild(ChoiceData("Choice H", NoDivert), <<
                BranchingChoiceOf(<<
                    BranchBuild(ChoiceData("Choice I", NoDivert),
                                <<LineOf("Line 3", NoDivert),
                                  FailingLineOf("Broken I"),
                                  LineOf("Line 4", NoDivert)>>)
                >>),
                LineOf("Line 5", NoDivert)
            >>),
            BranchBuild(ChoiceData("Choice J", NoDivert),
                        <<LineOf("Line 6", NoDivert)>>)
        >>),
        LineOf("Line 7", NoDivert),
        FailingLineOf("Broken root"),
        LineOf("Line 8", NoDivert)
    >>)

\* A line that fails as the node's first item
FailingFirstTree ==
    RootNodeBuild(<<
        FailingLineOf("Broken first"),
        LineOf("Line 1", NoDivert),
        FailingLineOf("Broken second"),
        BranchingChoiceOf(<<
            BranchBuild(ChoiceData("Choice K", NoDivert), <<>>)
        >>)
    >>)

FailingTrees == {FailingTree, FailingFirstTree}

----------------------------------------------------------------------------
(* State at a call, and the record of the selected branch *)

\* nothing evaluated yet, no visits recorded, no choice made
NoVariable == [kind |-> "None"]
NoData == <<>>
NoPrinted == [kind |-> "None"]
NoChoice == [kind |-> "None"]

\* no index handed over, no MetaData made, line not called
NoIndex == <<>>
NoMetaData == [kind |-> "None"]
NoLine == [kind |-> "None"]

Snapshot ==
    [tree |-> tree, stack |-> stack, buffer |-> buffer, result |-> result]

NoSel == [active |-> FALSE, path |-> <<>>, buf |-> 0, visits |-> 0]

Init ==
    /\ tree \in Trees
    /\ stack = <<0>>
    /\ buffer = <<>>
    /\ pc = "idle"
    /\ cur = <<>>
    /\ frames = <<>>
    /\ chosen = 0
    /\ result = NoResult
    /\ op = "none"
    /\ pre = [tree |-> tree, stack |-> <<0>>, buffer |-> <<>>, result |-> NoResult]
    /\ sel = NoSel
    /\ selections = <<>>
    /\ freshFollows = 0
    /\ calls = 0
    /\ variable = NoVariable
    /\ data = NoData
    /\ printed = NoPrinted
    /\ in_progress = FALSE
    /\ pending = NoChoice
    /\ story_pc = "idle"
    /\ story_result = NoResult
    /\ line_index = NoIndex
    /\ meta_data = NoMetaData
    /\ line_number = NoLine

----------------------------------------------------------------------------
(* The caller: a new stack, a call of follow, a call of follow_with_choice *)

\* `let mut stack = vec![k]`
NewStack(k) ==
    /\ UNCHANGED <<variableVars, storyVars, metaVars>>
    /\ pc = "idle"
    /\ stack' = <<k>>
    /\ result' = NoResult
    /\ op' = "none"
    /\ sel' = NoSel
    /\ pre' = [Snapshot EXCEPT !.stack = <<k>>, !.result = NoResult]
    /\ UNCHANGED <<tree, buffer, pc, cur, frames, chosen, selections,
                   freshFollows, calls>>

\* `node.follow(&mut stack, &mut buffer)` on the root node.  follow reads the
\* last stack element as an index into the items of `self`, so the root is
\* followed only while the stack addresses the root's own items (length 1).
CallFollow ==
    /\ UNCHANGED <<variableVars, storyVars, metaVars>>
    /\ pc = "idle"
    /\ calls < MaxCalls
    /\ Len(stack) = 1
    /\ pc' = "follow"
    /\ cur' = <<>>
    /\ frames' = <<>>
    /\ result' = NoResult
    /\ op' = "follow"
    /\ pre' = Snapshot
    /\ sel' = NoSel
    /\ freshFollows' = IF stack = <<0>> THEN freshFollows + 1 ELSE freshFollows
    /\ calls' = calls + 1
    /\ UNCHANGED <<tree, stack, buffer, chosen, selections>>

\* any stack of indices, well formed or not
Stacks == UNION {[1..n -> 0..MaxIndex] : n \in 0..MaxStackLen}

\* a stack handed to the first call from outside: `let mut stack = vec![..]`
HandStack(s) ==
    /\ UNCHANGED <<variableVars, storyVars, metaVars>>
    /\ pc = "idle"
    /\ calls = 0
    /\ stack' = s
    /\ result' = NoResult
    /\ op' = "none"
    /\ sel' = NoSel
    /\ pre' = [Snapshot EXCEPT !.stack = s, !.result = NoResult]
    /\ UNCHANGED <<tree, buffer, pc, cur, frames, chosen, selections,
                   freshFollows, calls>>

\* `node.follow(&mut stack, &mut buffer)` with whatever stack there is
CallFollowAny ==
    /\ UNCHANGED <<variableVars, storyVars, metaVars>>
    /\ pc = "idle"
    /\ calls < MaxCalls
    /\ pc' = "follow"
    /\ cur' = <<>>
    /\ frames' = <<>>
    /\ result' = NoResult
    /\ op' = "follow"
    /\ pre' = Snapshot
    /\ sel' = NoSel
    /\ freshFollows' = IF stack = <<0>> THEN freshFollows + 1 ELSE freshFollows
    /\ calls' = calls + 1
    /\ UNCHANGED <<tree, stack, buffer, chosen, selections>>

\* `node.follow_with_choice(c, 0, &mut stack, &mut buffer)` on the root node
CallFollowWithChoice(c) ==
    /\ UNCHANGED <<variableVars, storyVars, metaVars>>
    /\ pc = "idle"
    /\ calls < MaxCalls
    /\ pc' = "fwc"
    /\ cur' = <<>>
    /\ frames' = <<>>
    /\ chosen' = c
    /\ result' = NoResult
    /\ op' = "fwc"
    /\ pre' = Snapshot
    /\ sel' = NoSel
    /\ calls' = calls + 1
    /\ UNCHANGED <<tree, stack, buffer, selections, freshFollows>>

----------------------------------------------------------------------------
(* follow *)

\* `stack.last_mut().ok_or(..)?`, the visit count, and the slice of items
FollowEnter ==
    /\ UNCHANGED <<variableVars, storyVars, metaVars>>
    /\ pc = "follow"
    /\ IF stack = <<>>
       THEN /\ pc' = "ret"
            /\ result' = EmptyStackError
            /\ UNCHANGED tree
       ELSE LET node == NodeAt(tree, cur) IN
            /\ tree' = IF EntersNode(Last(stack))
                       THEN ReplaceNode(tree, cur, increment_num_visited(node))
                       ELSE tree
            /\ IF Last(stack) > get_num_items(node)
               THEN pc' = "panicked" /\ result' = Panic
               ELSE pc' = "loop" /\ UNCHANGED result
    /\ UNCHANGED <<stack, buffer, cur, frames, chosen, op, pre, sel,
                   selections, freshFollows, calls>>

\* the loop body on a Container::Line
FollowLine ==
    /\ UNCHANGED <<variableVars, storyVars, metaVars>>
    /\ pc = "loop"
    /\ HasItem(NodeAt(tree, cur), Last(stack))
    /\ IsLine(get_item(NodeAt(tree, cur), Last(stack)))
    /\ LET line == get_item(NodeAt(tree, cur), Last(stack)) IN
       /\ stack' = AdvanceIndex(stack)
       /\ buffer' = ProcessBuffer(line, buffer)
       /\ IF PropagatesError(ProcessResult(line)) \/ ShortCircuits(ProcessResult(line))
          THEN pc' = "ret" /\ result' = ProcessResult(line)
          ELSE UNCHANGED <<pc, result>>
    /\ UNCHANGED <<tree, cur, frames, chosen, op, pre, sel, selections,
                   freshFollows, calls>>

\* the loop body on a Container::BranchingChoice
FollowBranchingChoice ==
    /\ UNCHANGED <<variableVars, storyVars, metaVars>>
    /\ pc = "loop"
    /\ HasItem(NodeAt(tree, cur), Last(stack))
    /\ IsBranchingChoice(get_item(NodeAt(tree, cur), Last(stack)))
    /\ LET item == get_item(NodeAt(tree, cur), Last(stack)) IN
       /\ stack' = StayAtBranchingChoice(AdvanceIndex(stack))
       /\ result' = NextChoiceSet(get_choices_from_branching_set(item.branches))
    /\ pc' = "ret"
    /\ UNCHANGED <<tree, buffer, cur, frames, chosen, op, pre, sel, selections,
                   freshFollows, calls>>

\* the loop is exhausted: `Ok(Next::Done)`
FollowDone ==
    /\ UNCHANGED <<variableVars, storyVars, metaVars>>
    /\ pc = "loop"
    /\ ~HasItem(NodeAt(tree, cur), Last(stack))
    /\ pc' = "ret"
    /\ result' = NextDone
    /\ UNCHANGED <<tree, stack, buffer, cur, frames, chosen, op, pre, sel,
                   selections, freshFollows, calls>>

----------------------------------------------------------------------------
(* follow_with_choice *)

\* not at the leaf: recurse into the branch the stack names
FwcDescend ==
    /\ UNCHANGED <<variableVars, storyVars, metaVars>>
    /\ pc = "fwc"
    /\ stack # <<>>
    /\ NotAtLeaf(Len(cur), stack)
    /\ LET r == get_next_level_branch(Len(cur), stack, NodeAt(tree, cur)) IN
       IF r.kind = "Ok"
       THEN /\ frames' = Append(frames, cur)
            /\ cur' = cur \o <<r.item, r.branch>>
            /\ UNCHANGED <<pc, result>>
       ELSE IF r.kind = "Err"
       THEN /\ pc' = "ret"
            /\ result' = r
            /\ UNCHANGED <<frames, cur>>
       ELSE /\ pc' = "panicked"
            /\ result' = Panic
            /\ UNCHANGED <<frames, cur>>
    /\ UNCHANGED <<tree, stack, buffer, chosen, op, pre, sel, selections,
                   freshFollows, calls>>

\* at the leaf: select the branch, extend the stack, follow the branch
FwcSelect ==
    /\ UNCHANGED <<variableVars, storyVars, metaVars>>
    /\ pc = "fwc"
    /\ stack # <<>>
    /\ ~NotAtLeaf(Len(cur), stack)
    /\ LET node == NodeAt(tree, cur)
           r == get_selected_branch(chosen, Len(cur), stack, node)
           e == check_for_invalid_choice(chosen, Len(cur), stack, node) IN
       IF r.kind = "Ok"
       THEN /\ stack' = ExtendStack(stack, chosen)
            /\ frames' = Append(frames, cur)
            /\ cur' = cur \o <<r.item, r.branch>>
            /\ pc' = "follow"
            /\ sel' = [active |-> TRUE,
                       path |-> cur \o <<r.item, r.branch>>,
                       buf |-> Len(buffer),
                       visits |-> get_num_visited(
                           get_item(node, r.item).branches[r.branch + 1])]
            /\ selections' = Append(selections, cur \o <<r.item, r.branch>>)
            /\ UNCHANGED result
       ELSE IF r.kind = "Err"
       THEN /\ pc' = "ret"
            /\ result' = IF e # NoResult THEN e ELSE r
            /\ UNCHANGED <<stack, frames, cur, sel, selections>>
       ELSE /\ pc' = "panicked"
            /\ result' = Panic
            /\ UNCHANGED <<stack, frames, cur, sel, selections>>
    /\ UNCHANGED <<tree, buffer, chosen, op, pre, freshFollows, calls>>

\* `stack.len() - 1` on an empty stack: the subtraction overflows, or wraps
\* and `stack[stack_index]` is out of bounds; the call aborts either way
FwcEmptyStack ==
    /\ UNCHANGED <<variableVars, storyVars, metaVars>>
    /\ pc = "fwc"
    /\ stack = <<>>
    /\ pc' = "panicked"
    /\ result' = Panic
    /\ UNCHANGED <<tree, stack, buffer, cur, frames, chosen, op, pre, sel,
                   selections, freshFollows, calls>>

\* `Next::Done`: step past the branching choice and follow this node
FwcContinue ==
    /\ UNCHANGED <<variableVars, storyVars, metaVars>>
    /\ pc = "ret"
    /\ frames # <<>>
    /\ ContinuesCaller(result)
    /\ stack' = StepPastBranchingChoice(stack)
    /\ cur' = Last(frames)
    /\ frames' = Front(frames)
    /\ pc' = "follow"
    /\ result' = NoResult
    /\ UNCHANGED <<tree, buffer, chosen, op, pre, sel, selections,
                   freshFollows, calls>>

\* `other => Ok(other)`, and errors through `?`
FwcPropagate ==
    /\ UNCHANGED <<variableVars, storyVars, metaVars>>
    /\ pc = "ret"
    /\ frames # <<>>
    /\ ~ContinuesCaller(result)
    /\ cur' = Last(frames)
    /\ frames' = Front(frames)
    /\ UNCHANGED <<tree, stack, buffer, pc, chosen, result, op, pre, sel,
                   selections, freshFollows, calls>>

\* the outermost call returns to the caller
Return ==
    /\ UNCHANGED <<variableVars, storyVars, metaVars>>
    /\ pc = "ret"
    /\ frames = <<>>
    /\ pc' = "idle"
    /\ UNCHANGED <<tree, stack, buffer, cur, frames, chosen, result, op, pre,
                   sel, selections, freshFollows, calls>>

Next ==
    \/ \E k \in 0..Len(tree.items) : NewStack(k)
    \/ CallFollow
    \/ \E c \in 0..MaxChoice : CallFollowWithChoice(c)
    \/ FollowEnter
    \/ FollowLine
    \/ FollowBranchingChoice
    \/ FollowDone
    \/ FwcDescend
    \/ FwcSelect
    \/ FwcContinue
    \/ FwcPropagate
    \/ Return

Spec == Init /\ [][Next]_vars

\* a step of a running call: the body of follow or follow_with_choice going on
CallStep ==
    \/ FollowEnter
    \/ FollowLine
    \/ FollowBranchingChoice
    \/ FollowDone
    \/ FwcDescend
    \/ FwcSelect
    \/ FwcContinue
    \/ FwcPropagate
    \/ Return

\* a call that has been made keeps running: no step of its body waits on anything
FairSpec == Init /\ [][Next]_vars /\ WF_vars(CallStep)

\* the same calls on nodes with lines that fail
FailingInit ==
    /\ tree \in FailingTrees
    /\ stack = <<0>>
    /\ buffer = <<>>
    /\ pc = "idle"
    /\ cur = <<>>
    /\ frames = <<>>
    /\ chosen = 0
    /\ result = NoResult
    /\ op = "none"
    /\ pre = [tree |-> tree, stack |-> <<0>>, buffer |-> <<>>, result |-> NoResult]
    /\ sel = NoSel
    /\ selections = <<>>
    /\ freshFollows = 0
    /\ calls = 0
    /\ variable = NoVariable
    /\ data = NoData
    /\ printed = NoPrinted
    /\ in_progress = FALSE
    /\ pending = NoChoice
    /\ story_pc = "idle"
    /\ story_result = NoResult
    /\ line_index = NoIndex
    /\ meta_data = NoMetaData
    /\ line_number = NoLine

FailingSpec == FailingInit /\ [][Next]_vars

----------------------------------------------------------------------------
(* Variables and their text *)

Digits == <<"0", "1", "2", "3", "4", "5", "6", "7", "8", "9">>

\* `format!("{}", n)` of an unsigned number: its decimal digits
RECURSIVE FormatUnsigned(_)
FormatUnsigned(n) ==
    IF n < 10 THEN <<Digits[n + 1]>>
    ELSE FormatUnsigned(n \div 10) \o <<Digits[(n % 10) + 1]>>

\* `format!("{}", value)` of an i32
FormatInt(value) ==
    IF value < 0 THEN <<"-">> \o FormatUnsigned(-value) ELSE FormatUnsigned(value)

\* `format!("{}", value)` of an f32 that is a number of hundredths
FormatFloat(hundredths) ==
    LET whole == FormatUnsigned(hundredths \div 100)
        frac == hundredths % 100 IN
    IF frac = 0 THEN whole
    ELSE IF frac % 10 = 0 THEN whole \o <<".", Digits[(frac \div 10) + 1]>>
    ELSE whole \o <<".", Digits[(frac \div 10) + 1], Digits[(frac % 10) + 1]>>

AddressOf(knot, stitch) == [knot |-> knot, stitch |-> stitch]

Addresses == {AddressOf("tripoli", "cinema"),
              AddressOf("addis_ababa", "with_family")}

VariableAddress(address) == [kind |-> "Address", address |-> address]
VariableBool(value) == [kind |-> "Bool", value |-> value]
VariableDivert(address) == [kind |-> "Divert", address |-> address]
VariableFloat(hundredths) == [kind |-> "Float", hundredths |-> hundredths]
VariableInt(value) == [kind |-> "Int", value |-> value]
VariableString(content) == [kind |-> "String", content |-> content]

Variables ==
    {VariableAddress(a) : a \in Addresses}
        \cup {VariableBool(b) : b \in BOOLEAN}
        \cup {VariableDivert(a) : a \in Addresses}
        \cup {VariableFloat(h) : h \in {100, 135, 250}}
        \cup {VariableInt(i) : i \in -MaxInt..MaxInt}
        \cup {VariableString(c) : c \in {<<>>, <<"t", "w", "o">>}}

\* FollowData.knot_visit_counts: the visits of the knots and stitches recorded
FollowDatas ==
    UNION {[recorded -> 0..MaxVisits] : recorded \in SUBSET Addresses}

PrintedOk(string) == [kind |-> "Ok", string |-> string]

PrintInvalidVariable(name, value) ==
    [kind |-> "Err", err |-> "PrintInvalidVariable", name |-> name,
     value |-> value]

\* the visits of the knot and stitch of an address, an error if not recorded
knot_get_num_visited(address, follow_data) ==
    IF address \in DOMAIN follow_data
    THEN [kind |-> "Ok", num_visited |-> follow_data[address]]
    ELSE [kind |-> "Err", err |-> "InvalidAddress", address |-> address]

\* the address printed as 1 when visited and 0 when not
to_string_address_as_flag(address, follow_data) ==
    LET num_visited == knot_get_num_visited(address, follow_data) IN
    IF num_visited.kind = "Err" THEN num_visited
    ELSE PrintedOk(FormatUnsigned(IF num_visited.num_visited > 0 THEN 1 ELSE 0))

\* the arm `Variable::Address(address)`
to_string_address(address, follow_data) ==
    LET num_visited == knot_get_num_visited(address, follow_data) IN
    IF num_visited.kind = "Err" THEN num_visited
    ELSE PrintedOk(FormatUnsigned(num_visited.num_visited))

\* the boolean printed as a word
to_string_bool_as_word(value) ==
    PrintedOk(IF value THEN <<"t", "r", "u", "e">> ELSE <<"f", "a", "l", "s", "e">>)

\* the arm `Variable::Bool(value)`: `*value as u8`
to_string_bool(value) == PrintedOk(FormatUnsigned(IF value THEN 1 ELSE 0))

\* the divert printed as the visits of its address
to_string_divert_as_address(self, follow_data) ==
    to_string_address(self.address, follow_data)

\* the arm `Variable::Divert(..)`
to_string_divert(self, follow_data) == PrintInvalidVariable(<<>>, self)

\* Variable::to_string
to_string(self, follow_data) ==
    CASE self.kind = "Address" -> to_string_address(self.address, follow_data)
      [] self.kind = "Bool" -> to_string_bool(self.value)
      [] self.kind = "Divert" -> to_string_divert(self, follow_data)
      [] self.kind = "Float" -> PrintedOk(FormatFloat(self.hundredths))
      [] self.kind = "Int" -> PrintedOk(FormatInt(self.value))
      [] self.kind = "String" -> PrintedOk(self.content)

VariableInit ==
    /\ tree = DivertTree
    /\ stack = <<0>>
    /\ buffer = <<>>
    /\ pc = "idle"
    /\ cur = <<>>
    /\ frames = <<>>
    /\ chosen = 0
    /\ result = NoResult
    /\ op = "none"
    /\ pre = [tree |-> tree, stack |-> <<0>>, buffer |-> <<>>, result |-> NoResult]
    /\ sel = NoSel
    /\ selections = <<>>
    /\ freshFollows = 0
    /\ calls = 0
    /\ variable \in Variables
    /\ data \in FollowDatas
    /\ printed = NoPrinted
    /\ in_progress = FALSE
    /\ pending = NoChoice
    /\ story_pc = "idle"
    /\ story_result = NoResult
    /\ line_index = NoIndex
    /\ meta_data = NoMetaData
    /\ line_number = NoLine

\* `variable.to_string(&data)`
CallToString ==
    /\ printed' = to_string(variable, data)
    /\ UNCHANGED <<variable, data>>
    /\ UNCHANGED <<nodeVars, storyVars, metaVars>>

\* another variable of the story is printed next
NextVariable(v) ==
    /\ printed # NoPrinted
    /\ variable' = v
    /\ printed' = NoPrinted
    /\ UNCHANGED data
    /\ UNCHANGED <<nodeVars, storyVars, metaVars>>

VariableNext ==
    \/ CallToString
    \/ \E v \in Variables : NextVariable(v)

VariableSpec == VariableInit /\ [][VariableNext]_vars

----------------------------------------------------------------------------
(* The serialised form of the nodes: structs as maps of their fields, enum
   variants as maps from the variant's name to its content *)

SerializeLine(line) == [text |-> line.text, divert |-> line.divert]

DeserializeLine(value) == LineOf(value.text, value.divert)

SerializeChoiceData(choice) ==
    [line |-> SerializeLine(choice.line), num_visited |-> choice.num_visited,
     is_sticky |-> choice.is_sticky, is_fallback |-> choice.is_fallback,
     condition |-> choice.condition]

DeserializeChoiceData(value) ==
    [line |-> DeserializeLine(value.line), num_visited |-> value.num_visited,
     is_sticky |-> value.is_sticky, is_fallback |-> value.is_fallback,
     condition |-> value.condition]

RECURSIVE SerializeContainer(_)
RECURSIVE SerializeBranchSkippingVisits(_)
RECURSIVE SerializeBranch(_)

\* num_visited written as its default instead of its value
SerializeBranchSkippingVisits(branch) ==
    [choice |-> SerializeChoiceData(branch.choice),
     items |-> [i \in 1..Len(branch.items) |-> SerializeContainer(branch.items[i])],
     num_visited |-> 0]

\* `derive(Serialize)` on struct Branch
SerializeBranch(branch) ==
    [choice |-> SerializeChoiceData(branch.choice),
     items |-> [i \in 1..Len(branch.items) |-> SerializeContainer(branch.items[i])],
     num_visited |-> branch.num_visited]

\* `derive(Serialize)` on enum Container
SerializeContainer(item) ==
    IF IsLine(item)
    THEN [Line |-> SerializeLine(item)]
    ELSE [BranchingChoice |->
             [i \in 1..Len(item.branches) |-> SerializeBranch(item.branches[i])]]

\* `derive(Serialize)` on struct RootNode
SerializeRootNode(node) ==
    [items |-> [i \in 1..Len(node.items) |-> SerializeContainer(node.items[i])],
     num_visited |-> node.num_visited]

RECURSIVE DeserializeContainer(_)
RECURSIVE DeserializeBranch(_)

\* `derive(Deserialize)` on struct Branch
DeserializeBranch(value) ==
    [choice |-> DeserializeChoiceData(value.choice),
     items |-> [i \in 1..Len(value.items) |-> DeserializeContainer(value.items[i])],
     num_visited |-> value.num_visited]

\* `derive(Deserialize)` on enum Container
DeserializeContainer(value) ==
    IF "Line" \in DOMAIN value
    THEN DeserializeLine(value.Line)
    ELSE BranchingChoiceOf(
             [i \in 1..Len(value.BranchingChoice) |->
                 DeserializeBranch(value.BranchingChoice[i])])

\* `derive(Deserialize)` on struct RootNode
DeserializeRootNode(value) ==
    [items |-> [i \in 1..Len(value.items) |-> DeserializeContainer(value.items[i])],
     num_visited |-> value.num_visited]

----------------------------------------------------------------------------
(* The Story around one root node: start, resume, make_choice, save and load *)

StoryOk == [kind |-> "Ok"]
ResumedBeforeStart == [kind |-> "Err", err |-> "ResumedBeforeStart"]
CannotStartTwice == [kind |-> "Err", err |-> "CannotStartTwice"]
MadeChoiceWithoutChoice == [kind |-> "Err", err |-> "MadeChoiceWithoutChoice"]
StoryInvalidChoice(index, presented_len) ==
    [kind |-> "Err", err |-> "InvalidChoice", index |-> index,
     presented_len |-> presented_len]

SomeChoice(index) == [kind |-> "Some", index |-> index]

\* the branch indices of the choices presented to the host
Presented(choices) ==
    SelectSeq([i \in 1..Len(choices) |-> i - 1],
              LAMBDA b : /\ ~choices[b + 1].is_fallback
                         /\ EligibleChoice(choices[b + 1], choices[b + 1].num_visited))

\* the branch indices of the fallback choices that may be taken
Fallbacks(choices) ==
    SelectSeq([i \in 1..Len(choices) |-> i - 1],
              LAMBDA b : /\ choices[b + 1].is_fallback
                         /\ EligibleChoice(choices[b + 1], choices[b + 1].num_visited))

\* the Prompt the host receives for what the node returned
PromptOf(r) ==
    IF r.kind = "ChoiceSet"
    THEN [kind |-> "Choice",
          choices |-> [i \in 1..Len(Presented(r.choices)) |->
                          r.choices[Presented(r.choices)[i] + 1]]]
    ELSE r

\* resume let through whether or not the story was started
ResumeAlwaysAllowed(started) == TRUE

\* resume requires that start was called
ResumeAllowed(started) == started

\* what is written when the story is saved
SerializeStory ==
    [root |-> SerializeRootNode(tree), stack |-> stack,
     in_progress |-> in_progress, pending |-> pending,
     last_choices |-> IF result.kind = "ChoiceSet"
                      THEN [i \in 1..Len(result.choices) |->
                               SerializeChoiceData(result.choices[i])]
                      ELSE <<>>]

\* the story read back from what was written
DeserializeStory(value) ==
    [tree |-> DeserializeRootNode(value.root), stack |-> value.stack,
     in_progress |-> value.in_progress, pending |-> value.pending,
     last_choices |-> [i \in 1..Len(value.last_choices) |->
                          DeserializeChoiceData(value.last_choices[i])]]

\* read_story_from_string: the story not yet started
StoryInit ==
    /\ tree \in Trees
    /\ stack = <<>>
    /\ buffer = <<>>
    /\ pc = "idle"
    /\ cur = <<>>
    /\ frames = <<>>
    /\ chosen = 0
    /\ result = NoResult
    /\ op = "none"
    /\ pre = [tree |-> tree, stack |-> <<>>, buffer |-> <<>>, result |-> NoResult]
    /\ sel = NoSel
    /\ selections = <<>>
    /\ freshFollows = 0
    /\ calls = 0
    /\ variable = NoVariable
    /\ data = NoData
    /\ printed = NoPrinted
    /\ in_progress = FALSE
    /\ pending = NoChoice
    /\ story_pc = "idle"
    /\ story_result = NoResult
    /\ line_index = NoIndex
    /\ meta_data = NoMetaData
    /\ line_number = NoLine

\* `story.start()`
StoryStart ==
    /\ pc = "idle" /\ story_pc = "idle"
    /\ op' = "start"
    /\ pre' = Snapshot
    /\ IF in_progress
       THEN /\ story_result' = CannotStartTwice
            /\ UNCHANGED <<in_progress, stack>>
       ELSE /\ in_progress' = TRUE
            /\ stack' = <<0>>
            /\ story_result' = StoryOk
    /\ UNCHANGED <<tree, buffer, pc, cur, frames, chosen, result, sel,
                   selections, freshFollows, calls, pending, story_pc>>
    /\ UNCHANGED <<variableVars, metaVars>>

\* `story.resume(&mut line_buffer)`
StoryResume ==
    /\ pc = "idle" /\ story_pc = "idle"
    /\ calls < MaxCalls
    /\ op' = "resume"
    /\ pre' = Snapshot
    /\ calls' = calls + 1
    /\ IF ~ResumeAllowed(in_progress)
       THEN /\ story_result' = ResumedBeforeStart
            /\ UNCHANGED <<pc, cur, frames, chosen, result, sel, freshFollows,
                           pending, story_pc>>
       ELSE /\ pending # NoChoice \/ (Len(stack) <= 1 /\ result.kind # "Divert")
            /\ pc' = IF pending = NoChoice THEN "follow" ELSE "fwc"
            /\ chosen' = IF pending = NoChoice THEN chosen ELSE pending.index
            /\ cur' = <<>>
            /\ frames' = <<>>
            /\ result' = NoResult
            /\ sel' = NoSel
            /\ freshFollows' = IF pending = NoChoice /\ stack = <<0>>
                                THEN freshFollows + 1 ELSE freshFollows
            /\ pending' = NoChoice
            /\ story_pc' = "resume"
            /\ story_result' = NoResult
    /\ UNCHANGED <<tree, stack, buffer, selections, in_progress>>
    /\ UNCHANGED <<variableVars, metaVars>>

\* only a fallback choice may be taken: it is selected without a prompt
ResumeFallback ==
    /\ pc = "idle" /\ story_pc = "resume"
    /\ result.kind = "ChoiceSet"
    /\ Presented(result.choices) = <<>>
    /\ Fallbacks(result.choices) # <<>>
    /\ pc' = "fwc"
    /\ chosen' = Fallbacks(result.choices)[1]
    /\ cur' = <<>>
    /\ frames' = <<>>
    /\ result' = NoResult
    /\ sel' = NoSel
    /\ UNCHANGED <<tree, stack, buffer, op, pre, selections, freshFollows, calls>>
    /\ UNCHANGED <<variableVars, storyVars, metaVars>>

\* resume returns the prompt to the host
ResumeReturn ==
    /\ pc = "idle" /\ story_pc = "resume"
    /\ ~(/\ result.kind = "ChoiceSet"
         /\ Presented(result.choices) = <<>>
         /\ Fallbacks(result.choices) # <<>>)
    /\ story_pc' = "idle"
    /\ story_result' = PromptOf(result)
    /\ UNCHANGED nodeVars
    /\ UNCHANGED <<variableVars, metaVars, in_progress, pending>>

\* `story.make_choice(i)`
StoryMakeChoice(i) ==
    /\ pc = "idle" /\ story_pc = "idle"
    /\ op' = "make_choice"
    /\ pre' = Snapshot
    /\ IF result.kind # "ChoiceSet"
       THEN /\ story_result' = MadeChoiceWithoutChoice
            /\ UNCHANGED pending
       ELSE IF i >= Len(Presented(result.choices))
       THEN /\ story_result' = StoryInvalidChoice(i, Len(Presented(result.choices)))
            /\ UNCHANGED pending
       ELSE /\ pending' = SomeChoice(Presented(result.choices)[i + 1])
            /\ story_result' = StoryOk
    /\ UNCHANGED <<tree, stack, buffer, pc, cur, frames, chosen, result, sel,
                   selections, freshFollows, calls, in_progress, story_pc>>
    /\ UNCHANGED <<variableVars, metaVars>>

\* `serde_json::from_str(&serde_json::to_string(&story))` takes the story's place
SaveLoad ==
    /\ pc = "idle" /\ story_pc = "idle"
    /\ op # "restore"
    /\ LET restored == DeserializeStory(SerializeStory) IN
       /\ tree' = restored.tree
       /\ stack' = restored.stack
       /\ in_progress' = restored.in_progress
       /\ pending' = restored.pending
       /\ result' = IF result.kind = "ChoiceSet"
                     THEN NextChoiceSet(restored.last_choices) ELSE result
    /\ op' = "restore"
    /\ pre' = Snapshot
    /\ story_result' = StoryOk
    /\ UNCHANGED <<buffer, pc, cur, frames, chosen, sel, selections,
                   freshFollows, calls, story_pc>>
    /\ UNCHANGED <<variableVars, metaVars>>

StoryNext ==
    \/ StoryStart
    \/ StoryResume
    \/ ResumeFallback
    \/ ResumeReturn
    \/ \E i \in 0..MaxChoice : StoryMakeChoice(i)
    \/ SaveLoad
    \/ FollowEnter
    \/ FollowLine
    \/ FollowBranchingChoice
    \/ FollowDone
    \/ FwcDescend
    \/ FwcSelect
    \/ FwcContinue
    \/ FwcPropagate
    \/ Return

StorySpec == StoryInit /\ [][StoryNext]_vars

----------------------------------------------------------------------------
(* MetaData: numbers at their width, as sequences of 16-bit limbs, the lowest
   limb first; a u32 has two limbs, a usize of a 64-bit target has four *)

LimbValues == {0, 1, 6, 65534, 65535}

Indices == [1..4 -> LimbValues]

\* `line_index as u32`: the low 32 bits
as_u32(index) == SubSeq(index, 1, 2)

\* x + 1 wrapped at the width of x
RECURSIVE WrappingIncrement(_)
WrappingIncrement(x) ==
    IF x = <<>> THEN <<>>
    ELSE IF x[1] < 65535 THEN <<x[1] + 1>> \o Tail(x)
    ELSE <<0>> \o WrappingIncrement(Tail(x))

\* x is the largest number of its width
IsMax(x) == \A i \in 1..Len(x) : x[i] = 65535

\* `impl From<usize> for MetaData`
MetaDataFrom(index) == [kind |-> "MetaData", line_index |-> as_u32(index)]

LineOk(number) == [kind |-> "Ok", number |-> number]

\* `self.line_index + 1`: at u32::MAX the addition panics where overflow is
\* checked and wraps where it is not
LineOutcomes(self) ==
    IF IsMax(self.line_index)
    THEN {Panic, LineOk(WrappingIncrement(self.line_index))}
    ELSE {LineOk(WrappingIncrement(self.line_index))}

MetaInit ==
    /\ tree = DivertTree
    /\ stack = <<0>>
    /\ buffer = <<>>
    /\ pc = "idle"
    /\ cur = <<>>
    /\ frames = <<>>
    /\ chosen = 0
    /\ result = NoResult
    /\ op = "none"
    /\ pre = [tree |-> tree, stack |-> <<0>>, buffer |-> <<>>, result |-> NoResult]
    /\ sel = NoSel
    /\ selections = <<>>
    /\ freshFollows = 0
    /\ calls = 0
    /\ variable = NoVariable
    /\ data = NoData
    /\ printed = NoPrinted
    /\ in_progress = FALSE
    /\ pending = NoChoice
    /\ story_pc = "idle"
    /\ story_result = NoResult
    /\ line_index \in Indices
    /\ meta_data = NoMetaData
    /\ line_number = NoLine

\* `MetaData::from(line_index)`
CallMetaDataFrom ==
    /\ meta_data = NoMetaData
    /\ meta_data' = MetaDataFrom(line_index)
    /\ UNCHANGED <<line_index, line_number>>
    /\ UNCHANGED <<nodeVars, variableVars, storyVars>>

\* `meta_data.line()`
CallLine ==
    /\ meta_data # NoMetaData
    /\ line_number = NoLine
    /\ \E outcome \in LineOutcomes(meta_data) : line_number' = outcome
    /\ UNCHANGED <<line_index, meta_data>>
    /\ UNCHANGED <<nodeVars, variableVars, storyVars>>

MetaNext ==
    \/ CallMetaDataFrom
    \/ CallLine

MetaSpec == MetaInit /\ [][MetaNext]_vars

\* the same calls on stacks handed in from outside, malformed ones included
AnyStackNext ==
    \/ \E s \in Stacks : HandStack(s)
    \/ CallFollowAny
    \/ \E c \in 0..MaxChoice : CallFollowWithChoice(c)
    \/ FollowEnter
    \/ FollowLine
    \/ FollowBranchingChoice
    \/ FollowDone
    \/ FwcEmptyStack
    \/ FwcDescend
    \/ FwcSelect
    \/ FwcContinue
    \/ FwcPropagate
    \/ Return

AnyStackSpec == Init /\ [][AnyStackNext]_vars

----------------------------------------------------------------------------
(* Vocabulary of the properties *)

\* the stack addresses a branching choice: items[s[0]] -> branches[s[1]] -> ...
RECURSIVE ResolvesToBranchingChoice(_, _)
ResolvesToBranchingChoice(node, stk) ==
    /\ Len(stk) >= 1
    /\ HasItem(node, stk[1])
    /\ IsBranchingChoice(get_item(node, stk[1]))
    /\ \/ Len(stk) = 1
       \/ /\ Len(stk) >= 3
          /\ stk[2] < Len(get_item(node, stk[1]).branches)
          /\ ResolvesToBranchingChoice(
                 get_item(node, stk[1]).branches[stk[2] + 1], Tail(Tail(stk)))

\* the branches of the branching choice a resolving stack addresses
LeafBranches(root, stk) ==
    get_item(NodeAt(root, Front(stk)), Last(stk)).branches

\* the paths of all branches below a node
RECURSIVE BranchPathsOf(_, _)
BranchPathsOf(node, prefix) ==
    UNION { UNION { {prefix \o <<i - 1, b - 1>>}
                    \cup BranchPathsOf(node.items[i].branches[b],
                                       prefix \o <<i - 1, b - 1>>)
                  : b \in 1..Len(node.items[i].branches) }
          : i \in {j \in 1..Len(node.items) : IsBranchingChoice(node.items[j])} }

BranchPaths == BranchPathsOf(tree, <<>>)

TimesSelected(path) ==
    Cardinality({i \in 1..Len(selections) : selections[i] = path})

\* an item that ends a follow: a branching choice or a line with a divert
Stops(item) == IsBranchingChoice(item) \/ item.divert # NoDivert

\* index of the first item at or after k that ends a follow, else the item count
FirstStop(node, k) ==
    LET stops == {j \in k..(get_num_items(node) - 1) : Stops(get_item(node, j))} IN
    IF stops = {} THEN get_num_items(node)
    ELSE CHOOSE j \in stops : \A i \in stops : j <= i

\* texts of the items from..to of a node (all of them lines)
Texts(node, from, to) ==
    [j \in 1..(to - from + 1) |-> get_item(node, from + j - 1).text]

\* all items of a node from index k on are lines without a divert
PlainFrom(node, k) == FirstStop(node, k) = get_num_items(node)

\* the branch at path, and every enclosing node after it, has only plain lines left
RECURSIVE RunsToEnd(_, _)
RunsToEnd(root, path) ==
    \/ path = <<>>
    \/ /\ PlainFrom(NodeAt(root, SubSeq(path, 1, Len(path) - 2)),
                    path[Len(path) - 1] + 1)
       /\ RunsToEnd(root, SubSeq(path, 1, Len(path) - 2))

\* the lines left in the enclosing nodes of path, innermost first
RECURSIVE RemainingOfAncestors(_, _)
RemainingOfAncestors(root, path) ==
    IF path = <<>> THEN <<>>
    ELSE LET parent == SubSeq(path, 1, Len(path) - 2)
             node == NodeAt(root, parent) IN
         Texts(node, path[Len(path) - 1] + 1, get_num_items(node) - 1)
             \o RemainingOfAncestors(root, parent)

\* what the running call has appended
Emitted == SubSeq(buffer, Len(pre.buffer) + 1, Len(buffer))

----------------------------------------------------------------------------
(* Properties *)

\* C1: starting from the stack [0], after any sequence of follow and
\* follow_with_choice calls that return Ok, the position stack is non-empty
\* and its length is odd.
StackLengthIsOdd ==
    result.kind # "Panic" => (stack # <<>> /\ Len(stack) % 2 = 1)

StackLengthIsOddWitness ==
    /\ pc = "idle" /\ op = "fwc" /\ result.kind = "Done"
    /\ Len(pre.stack) = 5 /\ Len(stack) = 1

\* C2: a branch's num_visited equals the number of follow_with_choice calls
\* that selected it; siblings of the selected branch and the branches on the
\* stack path keep their count.
BranchVisitsEqualSelections ==
    pc = "idle" =>
        /\ \A p \in BranchPaths : get_num_visited(NodeAt(tree, p)) = TimesSelected(p)
        /\ (op = "fwc" /\ sel.active) =>
               \A p \in BranchPaths \ {sel.path} :
                   get_num_visited(NodeAt(tree, p))
                       = get_num_visited(NodeAt(pre.tree, p))

BranchVisitsEqualSelectionsWitness ==
    /\ pc = "idle" /\ op = "fwc" /\ result.kind = "ChoiceSet"
    /\ Len(sel.path) = 4 /\ Len(stack) = 1
    /\ TimesSelected(sel.path) = 1
    /\ TimesSelected(SubSeq(sel.path, 1, 2)) = 1

\* C3: the root's num_visited equals the number of follow calls made on it
\* with the stack [0]; a follow with a non-zero last index and the
\* continuation of the root inside follow_with_choice do not increment it.
RootVisitsEqualFreshFollows ==
    pc = "idle" => get_num_visited(tree) = freshFollows

RootVisitsEqualFreshFollowsWitness ==
    /\ pc = "idle" /\ op = "fwc" /\ result.kind = "Done"
    /\ sel.active /\ Len(sel.path) = 2
    /\ freshFollows = 1 /\ calls = 3

\* C4: whenever follow or follow_with_choice returns ChoiceSet, the stack
\* resolves to a branching choice, its last element is the index of that
\* branching choice, and the returned choices are those of its branches.
ChoiceSetLeavesStackAtBranchingChoice ==
    (pc \in {"ret", "idle"} /\ result.kind = "ChoiceSet") =>
        /\ ResolvesToBranchingChoice(tree, stack)
        /\ result.choices
               = get_choices_from_branching_set(LeafBranches(tree, stack))

ChoiceSetLeavesStackAtBranchingChoiceWitness ==
    /\ pc = "idle" /\ op = "fwc" /\ result.kind = "ChoiceSet"
    /\ Len(stack) = 3 /\ Last(stack) = 1

\* C5: when the selected branch and the rest of every enclosing node hold
\* only plain lines, follow_with_choice emits the branch's lines and then
\* the remaining lines of its ancestors innermost first, and returns Done
\* with the stack equal to [number of items of the root].
FinishedBranchReturnsToAncestors ==
    (pc = "idle" /\ op = "fwc" /\ sel.active
        /\ PlainFrom(NodeAt(tree, sel.path), 0) /\ RunsToEnd(tree, sel.path)) =>
        /\ result = NextDone
        /\ stack = <<get_num_items(tree)>>
        /\ Emitted = Texts(NodeAt(tree, sel.path), 0,
                           get_num_items(NodeAt(tree, sel.path)) - 1)
                         \o RemainingOfAncestors(tree, sel.path)

FinishedBranchReturnsToAncestorsWitness ==
    /\ pc = "idle" /\ op = "fwc" /\ result.kind = "Done"
    /\ Len(sel.path) = 6
    /\ Emitted = <<"Choice 3", "Line 1", "Line 2", "Line 3", "Line 4">>
    /\ stack = <<2>>

\* C6: a follow that reaches a line with a divert at index k returns that
\* divert at once: the lines before k and the divert line itself are in the
\* buffer, nothing after k is processed, and the last stack index is k + 1.
DivertReturnsImmediately ==
    /\ (pc \in {"ret", "idle"} /\ result.kind = "Divert") =>
           LET node == NodeAt(tree, Front(stack))
               k == Last(stack) - 1 IN
           /\ k >= 0 /\ HasItem(node, k) /\ IsLine(get_item(node, k))
           /\ get_item(node, k).divert = result.address
           /\ Last(buffer) = get_item(node, k).text
    /\ (pc = "idle" /\ op = "follow") =>
           LET k0 == Last(pre.stack)
               k == FirstStop(tree, k0) IN
           (HasItem(tree, k) /\ IsLine(get_item(tree, k))) =>
               /\ result = NextDivert(get_item(tree, k).divert)
               /\ stack = <<k + 1>>
               /\ Emitted = Texts(tree, k0, k)

DivertReturnsImmediatelyWitness ==
    /\ pc = "idle" /\ op = "follow" /\ result.kind = "Divert"
    /\ stack = <<2>> /\ pre.stack = <<0>>
    /\ Emitted = <<"Line 1", "Divert">>
    /\ HasItem(tree, 2)

\* C7: a follow call whose last stack index is k appends exactly the lines
\* items[k], items[k+1], ... in order up to the first divert line or
\* branching choice, keeps what was in the buffer as a prefix, and on Done
\* leaves the last stack index equal to the number of items.
FollowEmitsFromStackIndexInOrder ==
    (pc = "idle" /\ op = "follow") =>
        LET k0 == Last(pre.stack)
            stop == FirstStop(tree, k0)
            upto == IF HasItem(tree, stop) /\ IsLine(get_item(tree, stop))
                    THEN stop ELSE stop - 1 IN
        /\ IsPrefix(pre.buffer, buffer)
        /\ Emitted = Texts(tree, k0, upto)
        /\ (result = NextDone) <=> (stop = get_num_items(tree))
        /\ (result = NextDone) => (stack = <<get_num_items(tree)>>)

FollowEmitsFromStackIndexInOrderWitness ==
    /\ pc = "idle" /\ op = "follow" /\ result.kind = "Done"
    /\ pre.stack = <<2>> /\ pre.buffer # <<>>
    /\ Emitted = <<"Line 2", "Line 3">>
    /\ stack = <<4>>

\* C8: in a follow_with_choice call that selects a branch, the branch's
\* num_visited is incremented exactly once, and before the branch's own
\* choice line is appended to the buffer.
SelectedBranchCountedBeforeItsLine ==
    sel.active =>
        LET branch == NodeAt(tree, sel.path) IN
        /\ get_num_visited(branch) \in {sel.visits, sel.visits + 1}
        /\ (Len(buffer) > sel.buf) =>
               /\ get_num_visited(branch) = sel.visits + 1
               /\ buffer[sel.buf + 1] = branch.choice.line.text
        /\ (pc = "idle") => get_num_visited(branch) = sel.visits + 1

SelectedBranchCountedBeforeItsLineWitness ==
    /\ sel.active /\ pc = "loop" /\ cur = sel.path
    /\ Len(buffer) = sel.buf + 1
    /\ sel.visits = 1

\* C9: when follow enters the root with last stack index 0, num_visited is
\* incremented before any line of the node is appended to the buffer.
RootCountedBeforeItsLines ==
    (op = "follow" /\ Last(pre.stack) = 0) =>
        /\ get_num_visited(tree) \in
               {get_num_visited(pre.tree), get_num_visited(pre.tree) + 1}
        /\ (pc # "follow" \/ buffer # pre.buffer) =>
               get_num_visited(tree) = get_num_visited(pre.tree) + 1

RootCountedBeforeItsLinesWitness ==
    /\ op = "follow" /\ pre.stack = <<0>> /\ pc = "loop"
    /\ Len(buffer) = Len(pre.buffer) + 1
    /\ get_num_visited(pre.tree) = 1

\* C10: follow_with_choice with a choice index at or beyond the number of
\* branches of the leaf branching choice returns InvalidChoice carrying the
\* index, and leaves the stack, every num_visited and the buffer unchanged.
InvalidChoiceIsRejectedUnchanged ==
    (op = "fwc" /\ ResolvesToBranchingChoice(pre.tree, pre.stack)
        /\ chosen >= Len(LeafBranches(pre.tree, pre.stack))) =>
        /\ stack = pre.stack /\ tree = pre.tree /\ buffer = pre.buffer
        /\ (pc = "idle") =>
               /\ result.kind = "Err" /\ result.err = "InvalidChoice"
               /\ result.index = chosen

InvalidChoiceIsRejectedUnchangedWitness ==
    /\ pc = "idle" /\ op = "fwc" /\ result.kind = "Err"
    /\ result.err = "InvalidChoice" /\ result.index = 2
    /\ Len(stack) = 3 /\ buffer # <<>>

\* the branching choice ends with only fallback branches left to take
OnlyFallbackEligible(branches) ==
    /\ \E i \in 1..Len(branches) : branches[i].choice.is_fallback
    /\ \A i \in 1..Len(branches) :
           ~branches[i].choice.is_fallback => ~Eligible(branches[i])

\* C11 as stated: follow_with_choice follows a branch only if it would be
\* presented: its condition holds and it is sticky or not yet visited.
OnlyEligibleBranchIsFollowed ==
    sel.active =>
        EligibleChoice(NodeAt(tree, sel.path).choice, sel.visits)

\* C11 as amended: at the leaf branching choice every index below the number
\* of branches selects that branch and follows it from its first item, also
\* when the branch is once-only and already visited or its condition is false.
AnyBranchIndexIsFollowed ==
    (pc = "idle" /\ op = "fwc"
        /\ ResolvesToBranchingChoice(pre.tree, pre.stack)
        /\ chosen < Len(LeafBranches(pre.tree, pre.stack))) =>
        LET branch == LeafBranches(pre.tree, pre.stack)[chosen + 1] IN
        /\ IsOk(result)
        /\ sel.active /\ sel.path = pre.stack \o <<chosen>>
        /\ get_num_visited(NodeAt(tree, sel.path)) = get_num_visited(branch) + 1
        /\ Emitted # <<>> /\ Emitted[1] = branch.choice.line.text

AnyBranchIndexIsFollowedWitness ==
    /\ pc = "idle" /\ op = "fwc" /\ IsOk(result) /\ sel.active
    /\ ~NodeAt(tree, sel.path).choice.is_sticky
    /\ sel.visits = 1
    /\ Emitted[1] = "Once"

\* C12 as stated: a ChoiceSet holds no once-only choice with visits.
ChoiceSetExcludesVisitedOnceOnly ==
    (pc \in {"ret", "idle"} /\ result.kind = "ChoiceSet") =>
        \A i \in 1..Len(result.choices) :
            result.choices[i].is_sticky \/ result.choices[i].num_visited = 0

\* C12 as amended: the choice list of a branching choice has one entry per
\* branch, also for a once-only branch that was selected before, and the
\* entry carries the number of times the branch was selected.
ChoiceSetKeepsVisitedOnceOnly ==
    (pc \in {"ret", "idle"} /\ result.kind = "ChoiceSet") =>
        LET branches == LeafBranches(tree, stack) IN
        /\ Len(result.choices) = Len(branches)
        /\ \A i \in 1..Len(branches) :
               /\ result.choices[i].line = branches[i].choice.line
               /\ result.choices[i].is_sticky = branches[i].choice.is_sticky
               /\ result.choices[i].num_visited
                      = TimesSelected(Front(stack) \o <<Last(stack), i - 1>>)

ChoiceSetKeepsVisitedOnceOnlyWitness ==
    /\ pc = "idle" /\ op = "follow" /\ result.kind = "ChoiceSet"
    /\ Len(result.choices) = 3
    /\ ~result.choices[2].is_sticky
    /\ result.choices[2].num_visited = 1

RECURSIVE WellFormed(_, _)
WellFormed(node, stk) ==
    IF Len(stk) = 1 THEN stk[1] <= get_num_items(node)
    ELSE /\ Len(stk) >= 3
         /\ HasItem(node, stk[1])
         /\ IsBranchingChoice(get_item(node, stk[1]))
         /\ stk[2] < Len(get_item(node, stk[1]).branches)
         /\ WellFormed(get_item(node, stk[1]).branches[stk[2] + 1],
                       SubSeq(stk, 3, Len(stk)))

\* C14 as stated: a call on a malformed stack returns an error value and
\* never aborts.
MalformedStackNeverAborts ==
    (op \in {"follow", "fwc"} /\ ~WellFormed(pre.tree, pre.stack)) =>
        /\ pc # "panicked"
        /\ (pc = "idle" => result.kind = "Err")

\* C15: follow on an empty stack returns an error; the node's visit count,
\* the tree below it, the buffer and the stack are as they were at the call.
EmptyStackFollowIsErrorWithoutEffect ==
    (op = "follow" /\ pre.stack = <<>>) =>
        /\ pc # "panicked"
        /\ get_num_visited(tree) = get_num_visited(pre.tree)
        /\ tree = pre.tree
        /\ buffer = pre.buffer
        /\ stack = <<>>
        /\ (pc \in {"ret", "idle"} => ~IsOk(result) /\ result.kind = "Err")

EmptyStackFollowIsErrorWithoutEffectWitness ==
    /\ pc = "idle" /\ op = "follow" /\ pre.stack = <<>>
    /\ result.kind = "Err"
    /\ calls = 1

\* the number a string of decimal digits stands for
RECURSIVE ParseUnsigned(_)
ParseUnsigned(string) ==
    IF string = <<>> THEN 0
    ELSE LET d == CHOOSE k \in 0..9 : Digits[k + 1] = Last(string) IN
         10 * ParseUnsigned(Front(string)) + d

IsDecimal(string) ==
    /\ string # <<>>
    /\ \A i \in 1..Len(string) : \E k \in 1..10 : Digits[k] = string[i]
    /\ (Len(string) > 1 => string[1] # "0")

\* C16: to_string on a Divert variable is the error PrintInvalidVariable
\* carrying the variable, for every address and every FollowData.
DivertIsNeverPrinted ==
    (variable.kind = "Divert" /\ printed # NoPrinted) =>
        /\ printed.kind = "Err"
        /\ printed.err = "PrintInvalidVariable"
        /\ printed.value = variable

DivertIsNeverPrintedWitness ==
    /\ variable = VariableDivert(AddressOf("addis_ababa", "with_family"))
    /\ AddressOf("addis_ababa", "with_family") \in DOMAIN data
    /\ data[AddressOf("addis_ababa", "with_family")] = 3
    /\ printed.kind = "Err"

\* C17: to_string on an Address variable whose knot and stitch are recorded
\* is the decimal numeral of the recorded visits, "0" for zero visits, and
\* the call leaves FollowData as it was.
AddressPrintsItsVisits ==
    /\ [](variable.kind = "Address" /\ printed # NoPrinted
            /\ variable.address \in DOMAIN data =>
               /\ printed.kind = "Ok"
               /\ IsDecimal(printed.string)
               /\ ParseUnsigned(printed.string) = data[variable.address]
               /\ (data[variable.address] = 0 => printed.string = <<"0">>))
    /\ [][printed' # printed => data' = data]_vars

AddressPrintsItsVisitsWitness ==
    /\ variable = VariableAddress(AddressOf("tripoli", "cinema"))
    /\ AddressOf("tripoli", "cinema") \in DOMAIN data
    /\ data[AddressOf("tripoli", "cinema")] = MaxVisits
    /\ printed.kind = "Ok"
    /\ Len(printed.string) = 2

\* C20: to_string on a Bool variable is "1" for true and "0" for false,
\* whatever FollowData holds.
BoolPrintsAsNumber ==
    (variable.kind = "Bool" /\ printed # NoPrinted) =>
        printed = PrintedOk(IF variable.value THEN <<"1">> ELSE <<"0">>)

BoolPrintsAsNumberWitness ==
    /\ variable = VariableBool(TRUE)
    /\ data # NoData
    /\ printed = PrintedOk(<<"1">>)

RECURSIVE Magnitude(_)
Magnitude(x) ==
    IF x = <<>> THEN <<>>
    ELSE IF Last(x) = 0 THEN Magnitude(Front(x))
    ELSE x

\* x + 1 as a number, whatever the width
Successor(x) == IF IsMax(x) THEN WrappingIncrement(x) \o <<1>> ELSE WrappingIncrement(x)

\* C21 as stated: for every usize index i, MetaData::from(i).line() is i + 1.
LineNumberIsIndexPlusOne ==
    line_number # NoLine =>
        /\ line_number.kind = "Ok"
        /\ Magnitude(line_number.number) = Magnitude(Successor(line_index))

\* the paths of the nodes a stack passes through: the root and each branch
EnclosingPaths(stk) == {SubSeq(stk, 1, 2 * k) : k \in 0..((Len(stk) - 1) \div 2)}

\* C22: follow_with_choice on a stack [i0, b0, ..., iN] selects the chosen
\* branch of the branching choice at item iN of the innermost branch; the
\* root and the branches on the path keep their num_visited, and the first
\* line the call appends is that of the selected branch.
ChoiceAppliesAtDeepestBranchingChoice ==
    /\ (pc = "idle" /\ op = "fwc"
           /\ ResolvesToBranchingChoice(pre.tree, pre.stack)
           /\ chosen < Len(LeafBranches(pre.tree, pre.stack))) => sel.active
    /\ (op = "fwc" /\ sel.active) =>
           /\ sel.path = pre.stack \o <<chosen>>
           /\ sel.buf = Len(pre.buffer)
           /\ \A p \in EnclosingPaths(pre.stack) :
                  get_num_visited(NodeAt(tree, p))
                      = get_num_visited(NodeAt(pre.tree, p))
           /\ (Emitted # <<>> =>
                  Emitted[1] = NodeAt(pre.tree, sel.path).choice.line.text)

ChoiceAppliesAtDeepestBranchingChoiceWitness ==
    /\ pc = "idle" /\ op = "fwc" /\ sel.active
    /\ Len(pre.stack) = 5
    /\ get_num_visited(NodeAt(tree, SubSeq(pre.stack, 1, 4))) = 1
    /\ Emitted # <<>> /\ Emitted[1] = "Choice 3"

\* C23: when the branch selected by follow_with_choice stops at a divert or
\* at a branching choice, the call returns that Divert or ChoiceSet, appends
\* the lines of the branch only, and leaves the stack extended by the choice
\* index and the item index inside the branch.
BranchStopPropagatesUnchanged ==
    (pc = "idle" /\ op = "fwc" /\ sel.active
        /\ ~PlainFrom(NodeAt(pre.tree, sel.path), 0)) =>
        LET branch == NodeAt(pre.tree, sel.path)
            at == FirstStop(branch, 0)
            item == get_item(branch, at) IN
        IF IsBranchingChoice(item)
        THEN /\ result.kind = "ChoiceSet"
             /\ Len(result.choices) = Len(item.branches)
             /\ \A i \in 1..Len(item.branches) :
                    result.choices[i].line = item.branches[i].choice.line
             /\ Emitted = Texts(branch, 0, at - 1)
             /\ stack = pre.stack \o <<chosen, at>>
        ELSE /\ result = NextDivert(item.divert)
             /\ Emitted = Texts(branch, 0, at)
             /\ stack = pre.stack \o <<chosen, at + 1>>

BranchStopPropagatesUnchangedWitness ==
    /\ pc = "idle" /\ op = "fwc" /\ sel.active
    /\ Len(pre.stack) = 3
    /\ result = NextDivert("knot")
    /\ Emitted = <<"Choice E", "Line 3">>
    /\ Len(stack) = 5

\* C24: a returned ChoiceSet is, entry by entry and in branch order, the
\* choice data of the branches of the branching choice the stack is at, with
\* num_visited replaced by the visit count of the branch.
ChoiceSetMirrorsBranches ==
    (pc \in {"ret", "idle"} /\ result.kind = "ChoiceSet") =>
        LET branches == LeafBranches(tree, stack) IN
        /\ DOMAIN result.choices = 1..Len(branches)
        /\ \A i \in 1..Len(branches) :
               /\ [f \in DOMAIN result.choices[i] \ {"num_visited"}
                       |-> result.choices[i][f]]
                  = [f \in DOMAIN branches[i].choice \ {"num_visited"}
                       |-> branches[i].choice[f]]
               /\ result.choices[i].num_visited = get_num_visited(branches[i])

ChoiceSetMirrorsBranchesWitness ==
    /\ pc = "idle" /\ op = "follow" /\ result.kind = "ChoiceSet"
    /\ Len(result.choices) >= 2
    /\ result.choices[1].num_visited = 2
    /\ result.choices[2].num_visited = 0

\* choices handed to BranchBuilder::with_choice
BuilderChoices ==
    {ChoiceData("Choice 1", NoDivert), ChoiceData("Choice B", "divert"),
     ChoiceDataWith("", NoDivert, TRUE, TRUE, TRUE)}

\* items given to the builder by add_line and add_branching_choice, in order
BuilderItems ==
    LET items == {LineOf("Line 1", NoDivert), LineOf("Line 2", NoDivert),
                  BranchingChoiceOf(<<>>)} IN
    UNION {[1..n -> items] : n \in 0..2}

\* C25: a built Branch has the line of its choice as its first item and the
\* added items after it in the order they were added; every branch of the
\* tree keeps this shape, and the first line appended after a branch is
\* selected is the text of its choice.
BranchStartsWithItsChoiceLine ==
    /\ \A choice \in BuilderChoices : \A items \in BuilderItems :
           LET branch == BranchBuild(choice, items) IN
           /\ branch.choice = choice
           /\ Len(branch.items) = Len(items) + 1
           /\ branch.items[1] = choice.line
           /\ \A i \in 1..Len(items) : branch.items[i + 1] = items[i]
    /\ \A p \in BranchPaths :
           /\ get_num_items(NodeAt(tree, p)) >= 1
           /\ get_item(NodeAt(tree, p), 0) = NodeAt(tree, p).choice.line
    /\ (sel.active /\ Len(buffer) > sel.buf) =>
           buffer[sel.buf + 1] = NodeAt(tree, sel.path).choice.line.text

BranchStartsWithItsChoiceLineWitness ==
    /\ pc = "idle" /\ op = "fwc" /\ sel.active
    /\ get_num_items(NodeAt(tree, sel.path)) = 3
    /\ IsBranchingChoice(get_item(NodeAt(tree, sel.path), 1))
    /\ IsLine(get_item(NodeAt(tree, sel.path), 2))
    /\ buffer[sel.buf + 1] = "Choice C"

\* C26: follow keeps the length of the stack and every element but the last,
\* whatever they are; what it appends, and where the last element ends, is
\* determined by the last element alone.
FollowUsesOnlyLastStackElement ==
    (op = "follow" /\ pre.stack # <<>>) =>
        /\ Len(stack) = Len(pre.stack)
        /\ Front(stack) = Front(pre.stack)
        /\ (pc = "idle" /\ Last(pre.stack) <= get_num_items(pre.tree)) =>
               LET from == Last(pre.stack)
                   at == FirstStop(pre.tree, from)
                   stops == HasItem(pre.tree, at)
                   prompt == stops /\ IsBranchingChoice(get_item(pre.tree, at)) IN
               /\ IsOk(result)
               /\ Last(stack) = IF stops /\ ~prompt THEN at + 1 ELSE at
               /\ Emitted = Texts(pre.tree, from,
                                  IF stops /\ ~prompt THEN at ELSE at - 1)

FollowUsesOnlyLastStackElementWitness ==
    /\ pc = "idle" /\ op = "follow" /\ IsOk(result)
    /\ Len(pre.stack) = 3
    /\ pre.stack[1] # Last(pre.stack) /\ pre.stack[2] # Last(pre.stack)
    /\ Len(Emitted) = 2
    /\ Last(stack) = Last(pre.stack) + 2

\* C27: from the stack [0] on, as long as no call has aborted, the stack
\* addresses existing nodes: each item index but the last names a branching
\* choice of its node, each branch index is below the number of its branches,
\* and the last item index is at most the number of items of its node.
StackAddressesExistingNodes ==
    pc # "panicked" => WellFormed(tree, stack)

StackAddressesExistingNodesWitness ==
    /\ pc = "idle" /\ op = "fwc" /\ result.kind = "Divert"
    /\ Len(stack) = 5
    /\ Last(stack) = get_num_items(NodeAt(tree, Front(stack)))
    /\ calls >= 3

\* C28 as stated: after follow has returned a ChoiceSet, a second follow on
\* the same stack returns the same ChoiceSet and changes neither the buffer,
\* the stack nor any num_visited, also at a branching choice at index 0.
RefollowAtPromptChangesNothing ==
    (pc = "idle" /\ op = "follow" /\ pre.result.kind = "ChoiceSet") =>
        /\ result = pre.result
        /\ buffer = pre.buffer
        /\ stack = pre.stack
        /\ tree = pre.tree

\* C29: when the selected branch runs to its end and the next stop among the
\* remaining items of the enclosing node is a branching choice, the call
\* appends the branch's lines and the lines in between, returns the ChoiceSet
\* of that branching choice, and leaves the stack with the two entries of the
\* branch popped and its last element at the index of that branching choice.
FinishedBranchLeadsToLaterChoice ==
    (pc = "idle" /\ op = "fwc" /\ sel.active
        /\ PlainFrom(NodeAt(pre.tree, sel.path), 0)
        /\ LET parent == NodeAt(pre.tree, Front(pre.stack))
               at == FirstStop(parent, Last(pre.stack) + 1) IN
           HasItem(parent, at) /\ IsBranchingChoice(get_item(parent, at))) =>
        LET branch == NodeAt(pre.tree, sel.path)
            parent == NodeAt(pre.tree, Front(pre.stack))
            at == FirstStop(parent, Last(pre.stack) + 1)
            later == get_item(parent, at).branches IN
        /\ result.kind = "ChoiceSet"
        /\ Len(result.choices) = Len(later)
        /\ \A i \in 1..Len(later) : result.choices[i].line = later[i].choice.line
        /\ Emitted = Texts(branch, 0, get_num_items(branch) - 1)
                         \o Texts(parent, Last(pre.stack) + 1, at - 1)
        /\ Len(stack) = Len(pre.stack)
        /\ stack = Front(pre.stack) \o <<at>>

FinishedBranchLeadsToLaterChoiceWitness ==
    /\ pc = "idle" /\ op = "fwc" /\ sel.active
    /\ result.kind = "ChoiceSet"
    /\ Emitted = <<"Choice A", "Line 5">>
    /\ pre.stack = <<1>> /\ stack = <<3>>

\* a follow ends at the item: a branching choice, a diverting line or a failing line
Halts(item) == Stops(item) \/ LineFails(item)

\* index of the first item at or after k that ends a follow, else the item count
FirstHalt(node, k) ==
    LET halts == {j \in k..(get_num_items(node) - 1) : Halts(get_item(node, j))} IN
    IF halts = {} THEN get_num_items(node)
    ELSE CHOOSE j \in halts : \A i \in halts : j <= i

\* the first item that ends a follow from index k of the node is a failing line
FailsFrom(node, k) ==
    /\ FirstHalt(node, k) < get_num_items(node)
    /\ LineFails(get_item(node, FirstHalt(node, k)))

\* C30: when processing a line fails, the call returns that line's error at
\* once; the last stack index is already one past the failing line; the visit
\* count increment and the stack extension made earlier in the call are kept;
\* and a later follow on the same stack goes on after the failing line.
FailingLineLeavesIndexAdvanced ==
    /\ (pc = "idle" /\ op = "follow" /\ FailsFrom(pre.tree, Last(pre.stack))) =>
           LET from == Last(pre.stack)
               at == FirstHalt(pre.tree, from) IN
           /\ result = ProcessError(get_item(pre.tree, at))
           /\ stack = <<at + 1>>
           /\ Emitted = Texts(pre.tree, from, at - 1)
           /\ get_num_visited(tree) =
                  get_num_visited(pre.tree) + (IF from = 0 THEN 1 ELSE 0)
    /\ (pc = "idle" /\ op = "fwc" /\ sel.active
           /\ FailsFrom(NodeAt(pre.tree, sel.path), 0)) =>
           LET branch == NodeAt(pre.tree, sel.path)
               at == FirstHalt(branch, 0) IN
           /\ result = ProcessError(get_item(branch, at))
           /\ stack = pre.stack \o <<chosen, at + 1>>
           /\ Emitted = Texts(branch, 0, at - 1)
           /\ get_num_visited(NodeAt(tree, sel.path)) = sel.visits + 1
    /\ (pc = "idle" /\ op = "follow" /\ PropagatesError(pre.result)
           /\ pre.result.err = "ProcessError") =>
           /\ Last(pre.stack) >= 1
           /\ get_item(pre.tree, Last(pre.stack) - 1) = FailingLineOf(pre.result.text)
           /\ result # pre.result
           /\ Last(stack) >= Last(pre.stack)

\* a line inside a nested branch has failed after one line of the branch was emitted
FailingLineLeavesIndexAdvancedWitness ==
    /\ pc = "idle"
    /\ op = "fwc"
    /\ sel.active
    /\ FailsFrom(NodeAt(pre.tree, sel.path), 0)
    /\ Len(stack) = 5
    /\ Last(stack) = 3
    /\ Len(Emitted) = 2
    /\ PropagatesError(result)

\* C31: a follow on a node with at least one item, called with the last stack
\* index equal to the number of items, returns Done, appends nothing to the
\* buffer and leaves the stack and every num_visited as they were.
FollowAtEndOfNodeIsNoOp ==
    (pc = "idle" /\ op = "follow" /\ pre.stack # <<>>
        /\ get_num_items(pre.tree) >= 1
        /\ Last(pre.stack) = get_num_items(pre.tree)) =>
        /\ result = NextDone
        /\ buffer = pre.buffer
        /\ stack = pre.stack
        /\ tree = pre.tree

\* a node followed to its end has been followed again
FollowAtEndOfNodeIsNoOpWitness ==
    /\ pc = "idle"
    /\ op = "follow"
    /\ pre.stack # <<>>
    /\ get_num_items(pre.tree) >= 1
    /\ Last(pre.stack) = get_num_items(pre.tree)
    /\ pre.result = NextDone
    /\ pre.buffer # <<>>
    /\ result = NextDone

\* the results a call can return: Ok(Done), Ok(Divert), Ok(ChoiceSet) or Err
IsReturned(r) == IsOk(r) \/ r.kind = "Err"

\* C32: every follow_with_choice call on a stack that names a branching choice
\* at each of its levels terminates: the descent recurses at most once per
\* level of the stack, and the call ends in Done, Divert, ChoiceSet or an error.
FollowWithChoiceTerminates ==
    /\ [](  (op = "fwc" /\ ResolvesToBranchingChoice(pre.tree, pre.stack)) =>
              /\ Len(frames) <= (Len(pre.stack) + 1) \div 2
              /\ pc = "idle" => IsReturned(result))
    /\ (pc # "idle" /\ op = "fwc"
           /\ ResolvesToBranchingChoice(pre.tree, pre.stack)) ~> (pc = "idle")

\* a call on a stack of two levels has descended, followed the selected branch
\* to its end, unwound through both enclosing nodes and returned
FollowWithChoiceTerminatesWitness ==
    /\ pc = "idle"
    /\ op = "fwc"
    /\ ResolvesToBranchingChoice(pre.tree, pre.stack)
    /\ Len(pre.stack) = 3
    /\ Len(stack) = 1
    /\ sel.active
    /\ IsOk(result)

====
